---- MODULE Spec2Model ----
(***************************************************************************)
(* A model of sysly, a terminal system monitor (src/src/main.rs,           *)
(* src/src/ui.rs, src/src/process.rs, src/src/helpers.rs).                 *)
(*                                                                         *)
(* Spec       main(): terminal setup, the run_application loop (draw,      *)
(*            poll/read/handle_key_event, periodic refresh), teardown and  *)
(*            the process exit code.                                       *)
(* The pure rendering functions are checked under specifications of their  *)
(* own, whose Init draws the inputs and whose action applies the function. *)
(***************************************************************************)
EXTENDS Integers, Sequences, FiniteSets, TLC

VARIABLES
    pc,             \* position of the single thread in main / run_application
    show_help,      \* AppState.show_help
    elapsed,        \* last_update.elapsed() in ms, saturated at ElapsedCap
    key_code,       \* key.code read in the current loop iteration, "none" if none
    frames,         \* frames rendered by terminal.draw
    screen,         \* the frame on the terminal: its view and snapshot generation
    system,         \* generation of the sysinfo snapshot (bumped by refresh_all)
    raw_mode,       \* terminal: raw mode enabled
    alt_screen,     \* terminal: alternate screen entered
    mouse_capture,  \* terminal: mouse capture enabled
    cursor_hidden,  \* terminal: cursor hidden (ratatui hides it when drawing)
    result,         \* run_application's io::Result: "none" | "ok" | "err"
    main_err,       \* the setup / teardown call of main that returned Err, or "none"
    exit_code,      \* process exit code, -1 while running
    args,           \* input of the pure function under check
    out             \* its output, NoValue until applied

vars == <<pc, show_help, elapsed, key_code, frames, screen, system, raw_mode, alt_screen,
          mouse_capture, cursor_hidden, result, main_err, exit_code, args, out>>

loopVars == <<pc, show_help, elapsed, key_code, frames, screen, system, raw_mode, alt_screen,
              mouse_capture, cursor_hidden, result, main_err, exit_code>>

NoValue == [kind |-> "none"]

Max(a, b) == IF a >= b THEN a ELSE b
Min(a, b) == IF a <= b THEN a ELSE b

(***************************************************************************)
(* main.rs: constants                                                      *)
(***************************************************************************)
REFRESH_INTERVAL_MS == 1000
EVENT_POLL_TIMEOUT_MS == 100

\* Frames the model lets the loop render before it stops exploring.
MaxFrames == 4
\* Snapshot refreshes the model lets the loop perform.
MaxRefreshes == 2

\* The comparison last_update.elapsed() > REFRESH_INTERVAL_MS only tells values
\* up to the interval from values above it: elapsed saturates just above it.
ElapsedCap == REFRESH_INTERVAL_MS + EVENT_POLL_TIMEOUT_MS

Advance(e, d) == Min(e + d, ElapsedCap)

\* Key codes an Event::Key can carry: the quit key, the help key, and others.
KeyCodes == {"q", "F1", "F2", "h"}

\* Time a terminal.draw can take (it renders, and on the dashboard shells out
\* to ps): none measurable, a poll period, or a whole refresh interval.
DrawDelays == {0, EVENT_POLL_TIMEOUT_MS, REFRESH_INTERVAL_MS}

\* Time event::poll waits before an event arrives: less than the timeout.
PollDelays == {0}

(***************************************************************************)
(* main.rs:129-144  handle_key_event                                       *)
(***************************************************************************)
\* a handler in which any other key toggles the help window
C2_Mut_handle_key_event(help, k) ==
    CASE k = "q"  -> help
      [] k = "F1" -> TRUE
      [] OTHER    -> ~help

handle_key_event(help, k) ==
    CASE k = "q"  -> help
      [] k = "F1" -> TRUE
      [] OTHER    -> IF help THEN FALSE ELSE help

\* main.rs:107  the loop breaks on the quit key
C3_Mut_IsQuitKey(k) == FALSE

IsQuitKey(k) == k = "q"

\* main.rs:114-115  the periodic-refresh condition
C4_Mut_ShouldRefresh(help, e) == e > REFRESH_INTERVAL_MS

ShouldRefresh(help, e) == ~help /\ e > REFRESH_INTERVAL_MS

\* main.rs:32,55  main returns run_application's result; std maps Ok to exit
\* code 0 and Err to exit code 1.
C6_Mut_MainReturn(r) == "ok"

MainReturn(r) == r

ExitCode(r) == IF r = "ok" THEN 0 ELSE 1

(***************************************************************************)
(* main.rs:32-56  main: setup                                              *)
(***************************************************************************)
\* Nothing rendered yet.
NoFrame == [view |-> "none", system |-> 0]

\* main.rs:80-98  the frame terminal.draw renders: the help window alone when
\* show_help, otherwise the dashboard of the current snapshot.
Frame(help, sys) == [view |-> IF help THEN "help" ELSE "dashboard", system |-> sys]

LoopInit ==
    /\ pc = "enable_raw_mode"
    /\ show_help = FALSE
    /\ elapsed = 0
    /\ key_code = "none"
    /\ frames = 0
    /\ screen = NoFrame
    /\ system = 0
    /\ raw_mode = FALSE
    /\ alt_screen = FALSE
    /\ mouse_capture = FALSE
    /\ cursor_hidden = FALSE
    /\ result = "none"
    /\ main_err = "none"
    /\ exit_code = -1

Init ==
    /\ LoopInit
    /\ args = NoValue
    /\ out = NoValue

\* `?` on an Err in main: return it at once; the process exits with failure.
MainFails(step) ==
    /\ pc' = "exited"
    /\ main_err' = step
    /\ exit_code' = ExitCode("err")

\* main.rs:36  enable_raw_mode()?
EnableRawMode ==
    /\ pc = "enable_raw_mode"
    /\ \/ /\ raw_mode' = TRUE
          /\ pc' = "enter_screen"
          /\ UNCHANGED <<main_err, exit_code>>
       \/ /\ MainFails("enable_raw_mode")
          /\ UNCHANGED raw_mode
    /\ UNCHANGED <<show_help, elapsed, key_code, frames, system, alt_screen,
                   mouse_capture, cursor_hidden, result, screen, args, out>>

\* main.rs:38  execute!(stdout, EnterAlternateScreen, EnableMouseCapture)?
\* On Err any prefix of the two commands may have reached the terminal.
EnterScreen ==
    /\ pc = "enter_screen"
    /\ \/ /\ alt_screen' = TRUE
          /\ mouse_capture' = TRUE
          /\ pc' = "terminal_new"
          /\ UNCHANGED <<main_err, exit_code>>
       \/ /\ MainFails("enter_screen")
          /\ alt_screen' \in BOOLEAN
          /\ mouse_capture' = FALSE
    /\ UNCHANGED <<show_help, elapsed, key_code, frames, system, raw_mode,
                   cursor_hidden, result, screen, args, out>>

\* main.rs:41  Terminal::new(backend)?
TerminalNew ==
    /\ pc = "terminal_new"
    /\ \/ /\ pc' = "run_application"
          /\ UNCHANGED <<main_err, exit_code>>
       \/ MainFails("terminal_new")
    /\ UNCHANGED <<show_help, elapsed, key_code, frames, system, raw_mode, alt_screen,
                   mouse_capture, cursor_hidden, result, screen, args, out>>

(***************************************************************************)
(* main.rs:72-123  run_application                                         *)
(***************************************************************************)
\* main.rs:73-75  System::new_all(), last_update = now, show_help = false
RunStart ==
    /\ pc = "run_application"
    /\ system' = 0
    /\ elapsed' = 0
    /\ show_help' = FALSE
    /\ pc' = "draw"
    /\ UNCHANGED <<key_code, frames, raw_mode, alt_screen, mouse_capture,
                   cursor_hidden, result, main_err, exit_code, screen, args, out>>

\* `?` on an Err inside run_application: the loop ends with that error.
RunFails ==
    /\ result' = "err"
    /\ pc' = "disable_raw_mode"

\* main.rs:79-99  terminal.draw(...)? : one frame, help window or dashboard.
\* ratatui hides the cursor at the end of a draw that sets no cursor position.
Draw ==
    /\ pc = "draw"
    /\ frames < MaxFrames
    /\ key_code' = "none"
    /\ \E d \in DrawDelays : elapsed' = Advance(elapsed, d)
    /\ \/ /\ frames' = frames + 1
          /\ screen' = Frame(show_help, system)
          /\ cursor_hidden' = TRUE
          /\ pc' = "poll"
          /\ UNCHANGED result
       \/ /\ RunFails
          /\ cursor_hidden' \in {cursor_hidden, TRUE}
          /\ screen' \in {screen, Frame(show_help, system)}
          /\ UNCHANGED frames
    /\ UNCHANGED <<show_help, system, raw_mode, alt_screen, mouse_capture,
                   main_err, exit_code, args, out>>

\* main.rs:102  event::poll(timeout)? returns Ok(false): nothing to read.
PollTimeout ==
    /\ pc = "poll"
    /\ elapsed' = Advance(elapsed, EVENT_POLL_TIMEOUT_MS)
    /\ pc' = "update"
    /\ UNCHANGED <<show_help, key_code, frames, system, raw_mode, alt_screen,
                   mouse_capture, cursor_hidden, result, main_err, exit_code, screen, args, out>>

\* main.rs:102-103  event::poll(...)? or event::read()? returns Err.
EventError ==
    /\ pc = "poll"
    /\ \E d \in PollDelays : elapsed' = Advance(elapsed, d)
    /\ RunFails
    /\ UNCHANGED <<show_help, key_code, frames, system, raw_mode, alt_screen,
                   mouse_capture, cursor_hidden, main_err, exit_code, screen, args, out>>

\* main.rs:102-110  an Event::Key is read: handle_key_event, then break on 'q'.
ReadKey ==
    /\ pc = "poll"
    /\ \E k \in KeyCodes :
        /\ key_code' = k
        /\ show_help' = handle_key_event(show_help, k)
        /\ IF IsQuitKey(k)
              THEN /\ result' = "ok"
                   /\ pc' = "disable_raw_mode"
              ELSE /\ pc' = "update"
                   /\ UNCHANGED result
    /\ \E d \in PollDelays : elapsed' = Advance(elapsed, d)
    /\ UNCHANGED <<frames, system, raw_mode, alt_screen, mouse_capture,
                   cursor_hidden, main_err, exit_code, screen, args, out>>

\* a mouse or resize event closes the help window
C15_Mut_ReadOther ==
    /\ pc = "poll"
    /\ \E d \in PollDelays : elapsed' = Advance(elapsed, d)
    /\ pc' = "update"
    /\ show_help' = FALSE
    /\ UNCHANGED <<key_code, frames, system, raw_mode, alt_screen,
                   mouse_capture, cursor_hidden, result, main_err, exit_code, screen, args, out>>

\* main.rs:103  an event that is no Event::Key (mouse, resize, ...) is dropped.
ReadOther ==
    /\ pc = "poll"
    /\ \E d \in PollDelays : elapsed' = Advance(elapsed, d)
    /\ pc' = "update"
    /\ UNCHANGED <<show_help, key_code, frames, system, raw_mode, alt_screen,
                   mouse_capture, cursor_hidden, result, main_err, exit_code, screen, args, out>>

\* the timestamp restarts on every pass while the help window shows
C16_Mut_Update ==
    /\ pc = "update"
    /\ IF ShouldRefresh(show_help, elapsed)
          THEN /\ system < MaxRefreshes
               /\ system' = system + 1
               /\ elapsed' = 0
          ELSE /\ elapsed' = IF show_help THEN 0 ELSE elapsed
               /\ UNCHANGED system
    /\ pc' = "draw"
    /\ UNCHANGED <<show_help, key_code, frames, raw_mode, alt_screen, mouse_capture,
                   cursor_hidden, result, main_err, exit_code, screen, args, out>>

\* main.rs:113-119  refresh the snapshot when due, then loop.
Update ==
    /\ pc = "update"
    /\ IF ShouldRefresh(show_help, elapsed)
          THEN /\ system < MaxRefreshes
               /\ system' = system + 1
               /\ elapsed' = 0
          ELSE UNCHANGED <<system, elapsed>>
    /\ pc' = "draw"
    /\ UNCHANGED <<show_help, key_code, frames, raw_mode, alt_screen, mouse_capture,
                   cursor_hidden, result, main_err, exit_code, screen, args, out>>

(***************************************************************************)
(* main.rs:46-55  main: teardown and return                                *)
(***************************************************************************)
\* main.rs:47  disable_raw_mode()?
DisableRawMode ==
    /\ pc = "disable_raw_mode"
    /\ \/ /\ raw_mode' = FALSE
          /\ pc' = "leave_screen"
          /\ UNCHANGED <<main_err, exit_code>>
       \/ /\ MainFails("disable_raw_mode")
          /\ UNCHANGED raw_mode
    /\ UNCHANGED <<show_help, elapsed, key_code, frames, system, alt_screen,
                   mouse_capture, cursor_hidden, result, screen, args, out>>

\* main.rs:48-52  execute!(backend, LeaveAlternateScreen, DisableMouseCapture)?
LeaveScreen ==
    /\ pc = "leave_screen"
    /\ \/ /\ alt_screen' = FALSE
          /\ mouse_capture' = FALSE
          /\ pc' = "show_cursor"
          /\ UNCHANGED <<main_err, exit_code>>
       \/ /\ MainFails("leave_screen")
          /\ alt_screen' \in {alt_screen, FALSE}
          /\ UNCHANGED mouse_capture
    /\ UNCHANGED <<show_help, elapsed, key_code, frames, system, raw_mode,
                   cursor_hidden, result, screen, args, out>>

\* main.rs:53  terminal.show_cursor()?
ShowCursor ==
    /\ pc = "show_cursor"
    /\ \/ /\ cursor_hidden' = FALSE
          /\ pc' = "return"
          /\ UNCHANGED <<main_err, exit_code>>
       \/ /\ MainFails("show_cursor")
          /\ UNCHANGED cursor_hidden
    /\ UNCHANGED <<show_help, elapsed, key_code, frames, system, raw_mode, alt_screen,
                   mouse_capture, result, screen, args, out>>

\* main.rs:55  `result` is main's return value.
Return ==
    /\ pc = "return"
    /\ exit_code' = ExitCode(MainReturn(result))
    /\ pc' = "exited"
    /\ UNCHANGED <<show_help, elapsed, key_code, frames, system, raw_mode, alt_screen,
                   mouse_capture, cursor_hidden, result, main_err, screen, args, out>>

Next ==
    \/ EnableRawMode
    \/ EnterScreen
    \/ TerminalNew
    \/ RunStart
    \/ Draw
    \/ PollTimeout
    \/ EventError
    \/ ReadKey
    \/ ReadOther
    \/ Update
    \/ DisableRawMode
    \/ LeaveScreen
    \/ ShowCursor
    \/ Return

Spec == Init /\ [][Next]_vars

(***************************************************************************)
(* process.rs: the platform side channel (`ps`) and its reconciliation     *)
(***************************************************************************)
\* #[cfg(target_os = "macos")] selects one of two sets of definitions.
TargetOs == {"macos", "other"}

\* Process ids of the model's snapshots and ps listings: 1..MaxPid.
MaxPid == 3
Pids == 1..MaxPid

\* Data lines (after the header) in a modelled ps listing.
MaxPsLines == 2

\* A whitespace-separated field of a ps line: a decimal number or another word.
Num(n) == [t |-> "num", v |-> n]
Word == [t |-> "word", v |-> 0]

\* str::parse::<u32>() / parse::<u64>(): Ok for a decimal number that fits.
ParseOk(f) == f.t = "num" /\ f.v >= 0

\* process.rs:69-83  one line of `ps -axo pid,vsz,rss` folded into the map:
\* a line with fewer than 3 fields, or a field that does not parse, is skipped.
MemoryLine(map, parts) ==
    IF Len(parts) >= 3 /\ ParseOk(parts[1]) /\ ParseOk(parts[2]) /\ ParseOk(parts[3])
    THEN [p \in (DOMAIN map) \cup {parts[1].v} |->
            IF p = parts[1].v
            THEN [virtual_memory |-> parts[2].v, resident_memory |-> parts[3].v]
            ELSE map[p]]
    ELSE map

RECURSIVE MemoryLines(_, _)
MemoryLines(map, lines) ==
    IF lines = <<>> THEN map
    ELSE MemoryLines(MemoryLine(map, Head(lines)), Tail(lines))

EmptyMap == [p \in {} |-> 0]

\* The Result of Command::new("ps")...output(): Err, or the lines of stdout.
PsErr == [ok |-> FALSE, lines |-> <<>>]
PsOk(lines) == [ok |-> TRUE, lines |-> lines]

\* process.rs:59-88 (macOS), 144-147 (elsewhere)  fetch_memory_map;
\* lines().skip(1) drops the header.
fetch_memory_map(os, ps) ==
    IF os = "macos"
    THEN IF ~ps.ok \/ ps.lines = <<>> THEN EmptyMap
         ELSE MemoryLines(EmptyMap, Tail(ps.lines))
    ELSE EmptyMap

\* a malformed line discards the entries read so far
C13_Mut_PriorityLine(map, parts) ==
    IF Len(parts) >= 3 /\ ParseOk(parts[1])
    THEN [p \in (DOMAIN map) \cup {parts[1].v} |->
            IF p = parts[1].v
            THEN [priority |-> parts[2], nice |-> parts[3]]
            ELSE map[p]]
    ELSE EmptyMap

\* process.rs:33-46  one line of `ps -axo pid,pri,ni` folded into the map:
\* only the pid is parsed, the pri and ni fields are kept as text; a line
\* with fewer than 3 fields or an unparsable pid is skipped.
PriorityLine(map, parts) ==
    IF Len(parts) >= 3 /\ ParseOk(parts[1])
    THEN [p \in (DOMAIN map) \cup {parts[1].v} |->
            IF p = parts[1].v
            THEN [priority |-> parts[2], nice |-> parts[3]]
            ELSE map[p]]
    ELSE map

RECURSIVE PriorityLines(_, _)
PriorityLines(map, lines) ==
    IF lines = <<>> THEN map
    ELSE PriorityLines(PriorityLine(map, Head(lines)), Tail(lines))

\* process.rs:25-50 (macOS), 139-142 (elsewhere)  fetch_priority_map
fetch_priority_map(os, ps) ==
    IF os = "macos"
    THEN IF ~ps.ok \/ ps.lines = <<>> THEN EmptyMap
         ELSE PriorityLines(EmptyMap, Tail(ps.lines))
    ELSE EmptyMap

\* The texts "?" and "N/A" shown in place of a priority or nice value.
Unknown == [t |-> "?", v |-> 0]
NotAvailable == [t |-> "N/A", v |-> 0]

\* process.rs:98-110 (macOS), 149-158 (elsewhere)  get_process_priority
get_process_priority(os, pid, priority_map) ==
    IF os = "macos"
    THEN IF pid \in DOMAIN priority_map THEN priority_map[pid]
         ELSE [priority |-> Unknown, nice |-> Unknown]
    ELSE [priority |-> NotAvailable, nice |-> NotAvailable]

\* the fallback-only variant used on every platform
C8_Mut_get_process_memory(os, pid, memory_map, fallback_virt, fallback_res) ==
    [virtual_memory |-> fallback_virt, resident_memory |-> fallback_res]

\* process.rs:123-136 (macOS), 161-171 (elsewhere)  get_process_memory
get_process_memory(os, pid, memory_map, fallback_virt, fallback_res) ==
    IF os = "macos" /\ pid \in DOMAIN memory_map
    THEN memory_map[pid]
    ELSE [virtual_memory |-> fallback_virt, resident_memory |-> fallback_res]

(***************************************************************************)
(* ui.rs:293-334  draw_process_table                                       *)
(***************************************************************************)
\* ascending instead of descending
C7_Mut_compare(a, b) ==
    CASE a.cpu_usage < b.cpu_usage -> "Less"
      [] a.cpu_usage > b.cpu_usage -> "Greater"
      [] OTHER -> "Equal"

\* ui.rs:299-303  the sort_by closure: b.cpu_usage().partial_cmp(&a.cpu_usage())
compare(a, b) ==
    CASE b.cpu_usage < a.cpu_usage -> "Less"
      [] b.cpu_usage > a.cpu_usage -> "Greater"
      [] OTHER -> "Equal"

\* slice::sort_by is a stable sort: an element is placed before the first
\* element it compares Less than, after every element it compares Equal to.
RECURSIVE InsertSorted(_, _)
InsertSorted(s, x) ==
    IF s = <<>> THEN <<x>>
    ELSE IF compare(x, Head(s)) = "Less" THEN <<x>> \o s
    ELSE <<Head(s)>> \o InsertSorted(Tail(s), x)

RECURSIVE sort_by(_)
sort_by(s) ==
    IF s = <<>> THEN <<>>
    ELSE InsertSorted(sort_by(SubSeq(s, 1, Len(s) - 1)), s[Len(s)])

\* ui.rs:439-508  create_process_row: the pid, CPU and memory cells.  The
\* fallback memory values are sysinfo's byte counts divided by 1024.
\* A percentage kept exact, as the fraction num / den of one percent units.
Percent(num, den) == [num |-> num, den |-> den]

PROCESS_HIGH_THRESHOLD == 50
PROCESS_MEDIUM_THRESHOLD == 20

\* the table cells coloured by the CPU panel's thresholds
C12_Mut_get_usage_color(usage) ==
    CASE usage.num > 80 * usage.den -> "Red"
      [] usage.num > 50 * usage.den -> "Yellow"
      [] OTHER -> "White"

\* ui.rs:528-534  colour of a CPU% or MEM% cell; both comparisons are strict
get_usage_color(usage) ==
    CASE usage.num > PROCESS_HIGH_THRESHOLD * usage.den -> "Red"
      [] usage.num > PROCESS_MEDIUM_THRESHOLD * usage.den -> "Yellow"
      [] OTHER -> "White"

\* ui.rs:464-468  resident memory as a percentage of the machine's memory,
\* zero when the machine reports no memory
memory_usage(process, total_memory) ==
    IF total_memory > 0 THEN Percent(process.memory * 100, total_memory)
    ELSE Percent(0, 1)

create_process_row(index, process, os, priority_map, memory_map, total_memory) ==
    [index |-> index,
     pid |-> process.pid,
     priority_info |-> get_process_priority(os, process.pid, priority_map),
     cpu_usage |-> process.cpu_usage,
     cpu_color |-> get_usage_color(Percent(process.cpu_usage, 1)),
     mem_color |-> get_usage_color(memory_usage(process, total_memory)),
     memory_info |-> get_process_memory(os, process.pid, memory_map,
                                        process.virtual_memory \div 1024,
                                        process.memory \div 1024)]

\* ui.rs:298-326  collect the processes (in the HashMap's iteration order),
\* sort them, fetch the side-channel map, build one row per process.
draw_process_table(os, processes, total_memory, ps_pri, ps) ==
    LET sorted == sort_by(processes)
        priority_map == fetch_priority_map(os, ps_pri)
        memory_map == fetch_memory_map(os, ps)
    IN  [kind |-> "table",
         priority_map |-> priority_map,
         memory_map |-> memory_map,
         rows |-> [i \in 1..Len(sorted) |->
                     create_process_row(i - 1, sorted[i], os, priority_map,
                                        memory_map, total_memory)]]

\* CPU percentages of the modelled processes (spec.md section 8: 10, 90, 50).
CpuSamples == {10, 50, 90}

\* Byte counts sysinfo reports: below 1 KB, not a multiple of 1 KB, exact KBs.
ByteSamples == {1023, 5000, 8192}

\* A process of the snapshot.
Process(pid, cpu, virt, mem) ==
    [pid |-> pid, cpu_usage |-> cpu, virtual_memory |-> virt, memory |-> mem]

\* Every sequence of processes with distinct pids from P: the orders in which
\* sys.processes().values() can yield a snapshot's processes.
RECURSIVE ProcessSeqs(_, _, _)
ProcessSeqs(P, Cpus, Virts) ==
    {<<>>} \cup
    UNION {{<<Process(p, c, v, 2048)>> \o rest : rest \in ProcessSeqs(P \ {p}, Cpus, Virts)} :
             <<p, c, v>> \in P \X Cpus \X Virts}

\* Snapshots listing the processes by ascending pid.
AscendingSeqs(P, Cpus, Virts) ==
    {s \in ProcessSeqs(P, Cpus, Virts) :
        \A i \in 1..Len(s) - 1 : s[i].pid < s[i + 1].pid}

PsHeader == <<Word, Word, Word>>

\* Lines ps can print: a good line per pid (vsz = 100 + pid, rss = 200 + pid),
\* a second reading for pid 1, a short line, and lines with an unparsable field.
PsLines ==
    {<<Num(p), Num(100 + p), Num(200 + p)>> : p \in Pids}
    \cup {<<Num(1), Num(111), Num(211)>>,
          <<Num(1), Num(101)>>,
          <<Word, Num(101), Num(201)>>,
          <<Num(2), Word, Num(202)>>}

RECURSIVE SeqsUpTo(_, _)
SeqsUpTo(S, n) ==
    IF n = 0 THEN {<<>>}
    ELSE LET shorter == SeqsUpTo(S, n - 1)
         IN  shorter \cup {<<x>> \o r : x \in S, r \in {q \in shorter : Len(q) = n - 1}}

PsOutputs ==
    {PsErr} \cup {PsOk(<<PsHeader>> \o ls) : ls \in SeqsUpTo(PsLines, MaxPsLines)}

\* Lines `ps -axo pid,pri,ni` can print: a good line per pid, a second
\* reading for pid 1, a line with a non-numeric pri, a line with a fourth
\* field, a short line and a line whose pid does not parse.
PriLines ==
    {<<Num(p), Num(31), Num(0)>> : p \in Pids}
    \cup {<<Num(1), Num(20), Num(5)>>,
          <<Num(2), Word, Num(0)>>,
          <<Num(3), Num(31), Num(0), Word>>,
          <<Num(1), Num(31)>>,
          <<Word, Num(31), Num(0)>>}

\* Err, an empty stdout, or a header followed by up to MaxPsLines lines.
PriOutputs ==
    {PsErr, PsOk(<<>>)}
    \cup {PsOk(<<PsHeader>> \o ls) : ls \in SeqsUpTo(PriLines, MaxPsLines)}

\* A priority listing used where the side channel is not under study.
PriSample == PsOk(<<PsHeader, <<Num(1), Num(31), Num(0)>>>>)

\* sys.total_memory() where the MEM% column is not under study.
TotalMemorySample == 16384

\* A listing used where the side channel is not under study.
PsSample == PsOk(<<PsHeader, <<Num(1), Num(101), Num(201)>>>>)

LoopIdle ==
    /\ pc = "pure"
    /\ show_help = FALSE
    /\ elapsed = 0
    /\ key_code = "none"
    /\ frames = 0
    /\ screen = NoFrame
    /\ system = 0
    /\ raw_mode = FALSE
    /\ alt_screen = FALSE
    /\ mouse_capture = FALSE
    /\ cursor_hidden = FALSE
    /\ result = "none"
    /\ main_err = "none"
    /\ exit_code = -1

\* draw_process_table over snapshots in every iteration order.
InitSort ==
    /\ LoopIdle
    /\ out = NoValue
    /\ args \in {[kind |-> "table", target_os |-> os, processes |-> ps,
                     total_memory |-> TotalMemorySample,
                     ps_pri |-> PriSample, ps |-> PsSample] :
                    os \in TargetOs, ps \in ProcessSeqs(Pids, CpuSamples, {8192})}

\* draw_process_table over every modelled ps listing.
InitMem ==
    /\ LoopIdle
    /\ out = NoValue
    /\ args \in {[kind |-> "table", target_os |-> os, processes |-> ps,
                     total_memory |-> TotalMemorySample,
                     ps_pri |-> PriSample, ps |-> o] :
                    os \in TargetOs, ps \in AscendingSeqs(Pids, {10}, ByteSamples),
                    o \in PsOutputs}

DrawProcessTable ==
    /\ args.kind = "table"
    /\ out = NoValue
    /\ out' = draw_process_table(args.target_os, args.processes,
                                 args.total_memory, args.ps_pri, args.ps)
    /\ UNCHANGED <<loopVars, args>>

SpecSort == InitSort /\ [][DrawProcessTable]_vars

SpecMem == InitMem /\ [][DrawProcessTable]_vars

\* draw_process_table of one process over every pair of modelled listings.
InitPs ==
    /\ LoopIdle
    /\ out = NoValue
    /\ args \in {[kind |-> "table", target_os |-> os,
                   processes |-> <<Process(1, 10, 8192, 2048)>>,
                   total_memory |-> TotalMemorySample,
                   ps_pri |-> a, ps |-> b] :
                    os \in TargetOs, a \in PriOutputs, b \in PsOutputs \cup {PsOk(<<>>)}}

SpecPs == InitPs /\ [][DrawProcessTable]_vars

(***************************************************************************)
(* ui.rs:18-22, 156-165  layout constants                                  *)
(***************************************************************************)
CPU_COLUMNS == 4
MIN_BAR_LENGTH == 4
LABEL_WIDTH == 5
total_padding == (CPU_COLUMNS - 1) * 3
label_length == 4
percent_length == 6
bracket_length == 2

\* Decimal digits of a natural number, as Display prints it.
RECURSIVE NumDigits(_)
NumDigits(n) == IF n < 10 THEN 1 ELSE 1 + NumDigits(n \div 10)

\* f32/f64::round of the non-negative ratio num/den: half away from zero.
Round(num, den) == (2 * num + den) \div (2 * den)

\* ui.rs:338-342  create_progress_bar: `total` glyphs, the first `used` filled.
create_progress_bar(used, total) ==
    [i \in 1..total |-> IF i - 1 < used THEN "|" ELSE " "]

\* ui.rs:344-350  get_cpu_color
CPU_HIGH_THRESHOLD == 80
CPU_MEDIUM_THRESHOLD == 50

\* non-strict comparisons: a usage at a threshold takes the higher tier
C11_Mut_get_cpu_color(usage) ==
    CASE usage >= CPU_HIGH_THRESHOLD -> "Red"
      [] usage >= CPU_MEDIUM_THRESHOLD -> "Yellow"
      [] OTHER -> "Green"

get_cpu_color(usage) ==
    CASE usage > CPU_HIGH_THRESHOLD -> "Red"
      [] usage > CPU_MEDIUM_THRESHOLD -> "Yellow"
      [] OTHER -> "Green"

(***************************************************************************)
(* ui.rs:151-207  draw_cpu_bars                                            *)
(***************************************************************************)
\* A Span with the width of its text; a bar span also carries its glyphs.
Span(kind, width, cpu, bar, color) ==
    [kind |-> kind, width |-> width, cpu |-> cpu, bar |-> bar, color |-> color]

\* ui.rs:157  rows of the grid: ceil(cpu_count / CPU_COLUMNS)
CpuRows(cpu_count) == (cpu_count + CPU_COLUMNS - 1) \div CPU_COLUMNS

\* ui.rs:163  `area.width as usize - total_padding` is a usize subtraction: a
\* width below total_padding overflows.  A debug build panics there; a release
\* build wraps to a length near 2^62 that no bar or padding string can be
\* allocated with.  Either way the call does not return.
BarLengthOverflows(width) == width < total_padding

\* ui.rs:163-165  bar_length for a width that does not overflow
BarLength(width) ==
    Max(Max(((width - total_padding) \div CPU_COLUMNS)
              - (label_length + percent_length + bracket_length), 0),
        MIN_BAR_LENGTH)

\* ui.rs:182  format!("{:>2}   ", cpu_index): right-aligned to at least 2.
LabelWidth(cpu_index) == Max(2, NumDigits(cpu_index)) + 3

\* ui.rs:189  format!("{:>5.1}%", usage): one decimal, at least 5 wide, and '%'.
PercentWidth(usage) == Max(5, NumDigits(usage) + 2) + 1

\* ui.rs:175-190  the spans of a real core's cell
CoreSpans(cpu_index, usage, bar_length) ==
    LET used_bars == Round(usage * bar_length, 100)
    IN  << Span("label", LabelWidth(cpu_index), cpu_index, <<>>, "Cyan"),
           Span("raw", 1, cpu_index, <<>>, "none"),
           Span("bar", bar_length, cpu_index,
                create_progress_bar(used_bars, bar_length), get_cpu_color(usage)),
           Span("raw", 2, cpu_index, <<>>, "none"),
           Span("percent", PercentWidth(usage), cpu_index, <<>>, "Gray") >>

\* ui.rs:191-195  the blank padding of a cell beyond the last core
BlankSpans(bar_length) ==
    << Span("blank", LABEL_WIDTH + 1 + bar_length + bracket_length + percent_length,
            -1, <<>>, "none") >>

\* ui.rs:197-199  the gap after every column but the last
GapSpans(col) == IF col < CPU_COLUMNS - 1 THEN << Span("gap", 3, -1, <<>>, "none") >> ELSE <<>>

\* ui.rs:172-200  the spans pushed by one iteration of the column loop
CellSpans(cpus, row, col, cpu_rows, bar_length) ==
    LET cpu_index == row + col * cpu_rows
    IN  (IF cpu_index < Len(cpus)
         THEN CoreSpans(cpu_index, cpus[cpu_index + 1], bar_length)
         ELSE BlankSpans(bar_length))
        \o GapSpans(col)

\* ui.rs:156-203  cpu_lines: per row, per column, the spans pushed.
draw_cpu_bars(cpus, width) ==
    IF BarLengthOverflows(width) /\ Len(cpus) > 0
    THEN [kind |-> "cpu_bars", status |-> "crash", bar_length |-> 0, lines |-> <<>>]
    ELSE LET cpu_rows == CpuRows(Len(cpus))
             bar_length == IF BarLengthOverflows(width) THEN 0 ELSE BarLength(width)
         IN  [kind |-> "cpu_bars", status |-> "ok", bar_length |-> bar_length,
              lines |-> [r \in 1..cpu_rows |->
                           [c \in 1..CPU_COLUMNS |->
                              CellSpans(cpus, r - 1, c - 1, cpu_rows, bar_length)]]]

\* Cores of the largest modelled machine.
MaxCores == 101

\* Per-core usage percentages sampled: idle, at a threshold, saturated.
UsageSamples == {0, 50, 100}

\* Widths of the CPU panel: below the column padding, just enough for it,
\* bars at the minimum length, and wider bars.
AreaWidths == {0, 8, 9, 76, 100}

\* Core lists: n cores, usage alternating between two sampled values.
CpuLists ==
    {[i \in 1..n |-> IF i % 2 = 1 THEN u ELSE v] :
        n \in 1..MaxCores, u \in UsageSamples, v \in UsageSamples}

InitGrid ==
    /\ LoopIdle
    /\ out = NoValue
    /\ args \in {[kind |-> "cpu_bars", cpus |-> cs, width |-> w] :
                    cs \in CpuLists, w \in AreaWidths}

DrawCpuBars ==
    /\ args.kind = "cpu_bars"
    /\ out = NoValue
    /\ out' = draw_cpu_bars(args.cpus, args.width)
    /\ UNCHANGED <<loopVars, args>>

SpecGrid == InitGrid /\ [][DrawCpuBars]_vars

\* Largest usage percentage of the colour inputs: every whole percent up to it.
MaxUsage == 100

\* Widths of the panels whose colours are drawn: the bar length plays no part.
ColorWidths == {9, 100}

\* A one-core CPU panel for every usage percentage.
ColorCpuInputs ==
    {[kind |-> "cpu_bars", cpus |-> <<u>>, width |-> w] :
        u \in 0..MaxUsage, w \in ColorWidths}

\* Bytes making one percent of ColorTotalMemory.
ColorMemStep == 10
ColorTotalMemory == 100 * ColorMemStep

\* A one-process table for every CPU percentage u, the process holding
\* MaxUsage - u percent of the machine's memory or one byte more, on machines
\* reporting ColorTotalMemory bytes or none.
ColorTableInputs ==
    {[kind |-> "table", target_os |-> "other",
      processes |-> <<Process(1, u, 8192, (MaxUsage - u) * ColorMemStep + extra)>>,
      total_memory |-> t, ps_pri |-> PsErr, ps |-> PsErr] :
        u \in 0..MaxUsage, extra \in {0, 1}, t \in {0, ColorTotalMemory}}

InitColor ==
    /\ LoopIdle
    /\ out = NoValue
    /\ args \in ColorCpuInputs \cup ColorTableInputs

SpecColor == InitColor /\ [][DrawCpuBars \/ DrawProcessTable]_vars

(***************************************************************************)
(* helpers.rs:42-61  format_bytes                                          *)
(***************************************************************************)
DigitChars == <<"0", "1", "2", "3", "4", "5", "6", "7", "8", "9">>

\* Display of a natural number: its decimal digits.
RECURSIVE NatToChars(_)
NatToChars(n) ==
    IF n < 10 THEN <<DigitChars[n + 1]>>
    ELSE NatToChars(n \div 10) \o <<DigitChars[(n % 10) + 1]>>

\* Decimal formatting rounds the exact value, ties to the even digit.
RoundHalfEven(num, den) ==
    LET q == num \div den
        r == num % den
    IN  IF 2 * r > den THEN q + 1
        ELSE IF 2 * r < den THEN q
        ELSE IF q % 2 = 0 THEN q ELSE q + 1

\* format!("{:.1}{unit}", bytes / UNIT): the quotient by a power of two is
\* exact in f64, so the digits are those of bytes/UNIT rounded to a tenth.
FormatScaled(bytes, unit, name) ==
    LET tenths == RoundHalfEven(bytes * 10, unit)
    IN  NatToChars(tenths \div 10) \o <<".", DigitChars[(tenths % 10) + 1]>> \o name

\* helpers.rs:42-61.  The modelled byte counts stay below 1 GB, so the GB
\* branch (scaled here from whole KB to stay within 32-bit integers) is never
\* taken, and the TB branch, whose unit 2^40 does not fit them, is left out.
format_bytes(bytes) ==
    LET KB == 1024
        MB == KB * 1024
        GB == MB * 1024
    IN  IF bytes >= GB THEN FormatScaled(bytes \div 1024, MB, <<"G", "B">>)
        ELSE IF bytes >= MB THEN FormatScaled(bytes, MB, <<"M", "B">>)
        ELSE IF bytes >= KB THEN FormatScaled(bytes, KB, <<"K", "B">>)
        ELSE NatToChars(bytes) \o <<"K", "B">>

(***************************************************************************)
(* ui.rs:228-243, 352-405  the memory and swap bars                        *)
(***************************************************************************)
MIN_MEMORY_BAR_LENGTH == 10

\* ui.rs:30-31  MEMORY_HIGH_THRESHOLD = 0.8, MEMORY_MEDIUM_THRESHOLD = 0.5,
\* in tenths.
MEMORY_HIGH_THRESHOLD_TENTHS == 8
MEMORY_MEDIUM_THRESHOLD_TENTHS == 5

\* ui.rs:352-363  get_memory_color
get_memory_color(used, total) ==
    IF total = 0 THEN "Green"
    ELSE CASE 10 * used > MEMORY_HIGH_THRESHOLD_TENTHS * total -> "Red"
           [] 10 * used > MEMORY_MEDIUM_THRESHOLD_TENTHS * total -> "Yellow"
           [] OTHER -> "Green"

\* the fill computed as a percentage instead of being scaled to the bar
C10_Mut_MemoryUsedBars(used, total, bar_length) ==
    IF total > 0 THEN Round(used * 100, total) ELSE 0

\* ui.rs:373-377  used_bars = round(used / total * bar_length), 0 if total = 0
MemoryUsedBars(used, total, bar_length) ==
    IF total > 0 THEN Round(used * bar_length, total) ELSE 0

\* String::replace_range(pos..pos + 1, ch) on a string of 1-byte characters
ReplaceRange(bar, pos, ch) ==
    SubSeq(bar, 1, pos) \o <<ch>> \o SubSeq(bar, pos + 2, Len(bar))

\* ui.rs:388-392  write the label's characters over the bar from label_start,
\* dropping those that would fall past the bar's end.
RECURSIVE OverlayLabel(_, _, _, _)
OverlayLabel(bar, label_text, label_start, i) ==
    IF i >= Len(label_text) THEN bar
    ELSE OverlayLabel(IF label_start + i < Len(bar)
                      THEN ReplaceRange(bar, label_start + i, label_text[i + 1])
                      ELSE bar,
                      label_text, label_start, i + 1)

\* ui.rs:365-405  create_memory_bar
create_memory_bar(label, used, total, bar_length, label_width) ==
    LET label_text == format_bytes(used) \o <<"/">> \o format_bytes(total)
        used_bars == MemoryUsedBars(used, total, bar_length)
        bar == create_progress_bar(used_bars, bar_length)
        label_start == IF bar_length > Len(label_text)
                       THEN bar_length - Len(label_text) ELSE 0
    IN  [label |-> label,
         label_width |-> Max(label_width, Len(label)),
         used_bars |-> used_bars,
         label_text |-> label_text,
         bar |-> OverlayLabel(bar, label_text, label_start, 0),
         color |-> get_memory_color(used, total)]

\* ui.rs:228-243  draw_memory_bars: the Mem and the Swp line, one bar length.
draw_memory_bars(sys, width) ==
    LET bar_length == Max(Max(width - (LABEL_WIDTH + 3), 0), MIN_MEMORY_BAR_LENGTH)
    IN  [kind |-> "memory_bars",
         bar_length |-> bar_length,
         lines |-> << create_memory_bar(<<"M", "e", "m">>, sys.used_memory,
                                        sys.total_memory, bar_length, LABEL_WIDTH),
                      create_memory_bar(<<"S", "w", "p">>, sys.used_swap,
                                        sys.total_swap, bar_length, LABEL_WIDTH) >>]

\* Memory amounts of the modelled snapshots: multiples of 256 KB.
MaxMemUnits == 4
MemUnit == 256 * 1024
MemAmounts == {k * MemUnit : k \in 0..MaxMemUnits}

\* Widths of the memory panel: none, bars at the minimum length, wider bars.
MemoryAreaWidths == {0, 18, 30}

\* Usage pairs for two cores' bars.
BarUsages == {0, 12, 13, 50, 87, 100}

InitBar ==
    /\ LoopIdle
    /\ out = NoValue
    /\ args \in
         {[kind |-> "memory_bars", width |-> w,
           sys |-> [used_memory |-> um, total_memory |-> tm,
                    used_swap |-> us, total_swap |-> ts]] :
              w \in MemoryAreaWidths, um \in MemAmounts, tm \in MemAmounts,
              us \in MemAmounts, ts \in MemAmounts}
         \cup
         {[kind |-> "cpu_bars", cpus |-> <<u, v>>, width |-> w] :
              u \in BarUsages, v \in BarUsages, w \in AreaWidths \ {0, 8}}

DrawMemoryBars ==
    /\ args.kind = "memory_bars"
    /\ out = NoValue
    /\ out' = draw_memory_bars(args.sys, args.width)
    /\ UNCHANGED <<loopVars, args>>

SpecBar == InitBar /\ [][DrawMemoryBars \/ DrawCpuBars]_vars

(***************************************************************************)
(* Properties of the main loop (checked under Spec)                        *)
(***************************************************************************)
\* A step in which handle_key_event receives a key: Draw cleared key_code.
KeyHandled == pc = "poll" /\ key_code' \in KeyCodes

TeardownPcs == {"disable_raw_mode", "leave_screen", "show_cursor", "return", "exited"}

\* C1: whenever show_help is true and handle_key_event receives any key other
\* than the quit key 'q' (the help key F1 included), show_help is false after it.
C1_HelpDismissedByAnyNonQuitKey ==
    [][(KeyHandled /\ show_help /\ key_code' # "q") => ~show_help']_vars

\* C2: whenever show_help is false, handle_key_event sets it exactly when the
\* key is F1; every other key, the quit key included, leaves it false.
C2_DashboardToHelpOnlyOnF1 ==
    [][(KeyHandled /\ ~show_help) => (show_help' <=> key_code' = "F1")]_vars

\* F1 was the first key read, on the dashboard shown since startup.
C2_Witness ==
    /\ key_code = "F1"
    /\ show_help
    /\ frames = 1
    /\ pc = "update"

\* C3: once the quit key is read (on the dashboard or in help) the loop has
\* ended: the thread is in main's teardown, and from that step on no frame is
\* rendered, no snapshot refresh is performed and show_help does not change.
C3_QuitEndsLoop ==
    [][key_code' = "q" =>
          /\ pc' \in TeardownPcs
          /\ frames' = frames
          /\ system' = system
          /\ show_help' = show_help]_vars

\* The quit key was read while the help window was showing; main has exited.
C3_Witness ==
    /\ key_code = "q"
    /\ show_help
    /\ pc = "exited"
    /\ result = "ok"

\* C4: a snapshot refresh happens only at the end of a loop iteration, after
\* input handling, with the dashboard showing and more than the refresh
\* interval elapsed since the last refresh; never while help is showing.
C4_RefreshOnlyOnDashboardWhenDue ==
    [][system' # system =>
          /\ pc = "update"
          /\ ~show_help
          /\ elapsed > REFRESH_INTERVAL_MS]_vars

\* A refresh has just been performed, after the help window had been opened
\* and closed again.
C4_Witness ==
    /\ system = 1
    /\ elapsed = 0
    /\ pc = "draw"
    /\ key_code \in {"F2", "h"}

\* C5: on every exit path of main the terminal state that was changed (raw
\* mode, alternate screen, mouse capture, cursor visibility) is restored.
C5_TerminalRestoredOnExit ==
    pc = "exited" =>
        /\ ~raw_mode
        /\ ~alt_screen
        /\ ~mouse_capture
        /\ ~cursor_hidden

\* run_application returned Ok (the quit key) and no call of main failed.
CleanQuit == result = "ok" /\ main_err = "none"

\* C6 as stated: exit code 0 on a clean quit and also when run_application
\* ended with an I/O error and the cleanup was then carried out.
C6_ExitZeroAlsoOnIoError ==
    (pc = "exited" /\ (CleanQuit \/ (result = "err" /\ main_err = "none")))
        => exit_code = 0

\* C6 amended: exit code 0 on a clean quit; when run_application ended with
\* an I/O error the process exits with failure (1), cleanup attempted or not.
C6_ExitZeroOnlyOnCleanQuit ==
    pc = "exited" =>
        /\ CleanQuit => exit_code = 0
        /\ result = "err" => exit_code = 1

\* run_application failed, the whole cleanup ran, and the process has exited.
C6_Witness ==
    /\ pc = "exited"
    /\ result = "err"
    /\ main_err = "none"
    /\ ~raw_mode /\ ~alt_screen /\ ~mouse_capture /\ ~cursor_hidden
    /\ exit_code = 1

(***************************************************************************)
(* Properties of the process table (checked under SpecSort and SpecMem)    *)
(***************************************************************************)
TableDrawn == out # NoValue /\ out.kind = "table"

\* C7: the rows of draw_process_table are a permutation of the snapshot's
\* processes (each pid exactly once) with CPU percent non-increasing from
\* each row to the next.
C7_RowsSortedByCpuDescending ==
    TableDrawn =>
        /\ Len(out.rows) = Len(args.processes)
        /\ \A i \in 1..Len(args.processes) :
              Cardinality({j \in 1..Len(out.rows) :
                             /\ out.rows[j].pid = args.processes[i].pid
                             /\ out.rows[j].cpu_usage = args.processes[i].cpu_usage}) = 1
        /\ \A j \in 1..Len(out.rows) - 1 :
              out.rows[j].cpu_usage >= out.rows[j + 1].cpu_usage

\* The spec's example: CPU% [10, 90, 50] comes out as [90, 50, 10].
C7_Witness ==
    /\ TableDrawn
    /\ Len(args.processes) = 3
    /\ [i \in 1..3 |-> args.processes[i].cpu_usage] = <<10, 90, 50>>
    /\ [i \in 1..3 |-> out.rows[i].cpu_usage] = <<90, 50, 10>>

\* The snapshot's process shown in row j.
ProcessOfRow(j) ==
    CHOOSE p \in {args.processes[i] : i \in 1..Len(args.processes)} :
        p.pid = out.rows[j].pid

\* n is the byte count b expressed in whole KB.
IsKb(n, b) == n * 1024 <= b /\ b < (n + 1) * 1024

\* C8: a pid with no entry in the platform memory map gets the primary
\* sample's virtual and resident values converted to KB, the map's unit; a
\* pid with an entry, on the supported platform, gets the entry's values.
C8_MemoryFallbackAndOverride ==
    TableDrawn =>
        \A j \in 1..Len(out.rows) :
            LET row == out.rows[j]
                p == ProcessOfRow(j)
            IN  /\ row.pid \notin DOMAIN out.memory_map =>
                      /\ IsKb(row.memory_info.virtual_memory, p.virtual_memory)
                      /\ IsKb(row.memory_info.resident_memory, p.memory)
                /\ (row.pid \in DOMAIN out.memory_map /\ args.target_os = "macos") =>
                      row.memory_info = out.memory_map[row.pid]

\* On macOS, ps listed pid 1 but not pid 2: row 1 shows the listing's values,
\* row 2 the primary sample's 5000 bytes as 4 KB.
C8_Witness ==
    /\ TableDrawn
    /\ args.target_os = "macos"
    /\ DOMAIN out.memory_map = {1}
    /\ \E i, j \in 1..Len(out.rows) :
          /\ out.rows[i].pid = 1
          /\ out.rows[i].memory_info = [virtual_memory |-> 101, resident_memory |-> 201]
          /\ out.rows[j].pid = 2
          /\ ProcessOfRow(j).virtual_memory = 5000
          /\ out.rows[j].memory_info = [virtual_memory |-> 4, resident_memory |-> 2]

(***************************************************************************)
(* Properties of the CPU grid (checked under SpecGrid)                     *)
(***************************************************************************)
GridDrawn == out # NoValue /\ out.kind = "cpu_bars" /\ out.status = "ok"

\* The spans of the cell at (row, col), both from 0, without the column gap.
CellOf(row, col) ==
    SelectSeq(out.lines[row + 1][col + 1], LAMBDA sp : sp.kind # "gap")

RECURSIVE SumWidths(_)
SumWidths(spans) ==
    IF spans = <<>> THEN 0 ELSE Head(spans).width + SumWidths(Tail(spans))

IsCoreCell(cell, i) ==
    /\ Len(cell) > 0
    /\ \A k \in 1..Len(cell) : cell[k].kind # "blank" /\ cell[k].cpu = i

IsBlankCell(cell) == Len(cell) = 1 /\ cell[1].kind = "blank"

GridCells(rows) == (0..rows - 1) \X (0..CPU_COLUMNS - 1)

\* Column-major placement: the grid has ceil(n/4) rows of 4 cells, core i is
\* drawn at row i % rows, column i / rows, and in no other cell.
C9_ColumnMajorPlacement ==
    GridDrawn =>
        LET n == Len(args.cpus)
            rows == (n + 3) \div 4
        IN  /\ Len(out.lines) = rows
            /\ \A r \in 1..rows : Len(out.lines[r]) = 4
            /\ \A i \in 0..n - 1 :
                  {rc \in GridCells(rows) : IsCoreCell(CellOf(rc[1], rc[2]), i)}
                      = {<<i % rows, i \div rows>>}

\* Grid overhang: every cell whose index row + col*rows is >= n is blank
\* padding as wide as each real cell of the grid.
C9_BlankPaddingAsWideAsRealCells ==
    GridDrawn =>
        LET n == Len(args.cpus)
            rows == (n + 3) \div 4
        IN  \A rc \in GridCells(rows) :
                rc[1] + rc[2] * rows >= n =>
                    /\ IsBlankCell(CellOf(rc[1], rc[2]))
                    /\ \A real \in GridCells(rows) :
                          real[1] + real[2] * rows < n =>
                              SumWidths(CellOf(real[1], real[2]))
                                  = SumWidths(CellOf(rc[1], rc[2]))

\* C9: for every core count n >= 1 the cores are laid out in 4 columns and
\* ceil(n/4) rows in column-major order, every core in exactly one cell, and
\* every cell beyond the last core is blank padding of a real cell's width.
C9_ColumnMajorGridWithEqualPadding ==
    C9_ColumnMajorPlacement /\ C9_BlankPaddingAsWideAsRealCells

(***************************************************************************)
(* Properties of the proportional bars (checked under SpecBar)             *)
(***************************************************************************)
MemoryBarsDrawn == out # NoValue /\ out.kind = "memory_bars"

\* The filled glyphs of a bar without overlay.
Filled(bar) == Cardinality({k \in 1..Len(bar) : bar[k] = "|"})

\* The bar span of core i (from 0) when the panel has a single row.
CoreBar(i) == CellOf(i % Len(out.lines), i \div Len(out.lines))[3].bar

\* C10: for a total > 0 and bar width W the fill-count is 0 when used = 0,
\* W when used = total, and non-decreasing in used; it is 0 when total = 0;
\* and the rendered bar always has exactly W glyph positions.  Stated of the
\* Mem and Swp bars of one panel (same W; compared when their totals agree)
\* and of the bars of two cores of one CPU panel (total 100).
C10_BarFillProportionalAndFixedWidth ==
    /\ MemoryBarsDrawn =>
          LET W == out.bar_length
              mem == [used |-> args.sys.used_memory, total |-> args.sys.total_memory,
                      line |-> out.lines[1]]
              swp == [used |-> args.sys.used_swap, total |-> args.sys.total_swap,
                      line |-> out.lines[2]]
          IN  /\ \A b \in {mem, swp} :
                    /\ Len(b.line.bar) = W
                    /\ (b.total > 0 /\ b.used = 0) => b.line.used_bars = 0
                    /\ (b.total > 0 /\ b.used = b.total) => b.line.used_bars = W
                    /\ b.total = 0 => b.line.used_bars = 0
              /\ (mem.total = swp.total /\ mem.total > 0 /\ mem.used <= swp.used)
                    => mem.line.used_bars <= swp.line.used_bars
    /\ (GridDrawn /\ Len(args.cpus) = 2) =>
          LET W == out.bar_length
          IN  /\ \A i \in {0, 1} :
                    /\ Len(CoreBar(i)) = W
                    /\ args.cpus[i + 1] = 0 => Filled(CoreBar(i)) = 0
                    /\ args.cpus[i + 1] = 100 => Filled(CoreBar(i)) = W
              /\ args.cpus[1] <= args.cpus[2] => Filled(CoreBar(0)) <= Filled(CoreBar(1))

\* An empty Mem bar, a full Swp bar of the same total, both 22 glyphs wide
\* with the byte label written over the tail.
C10_Witness ==
    /\ MemoryBarsDrawn
    /\ out.bar_length = 22
    /\ args.sys.used_memory = 0
    /\ args.sys.total_memory = 4 * MemUnit
    /\ args.sys.used_swap = 4 * MemUnit
    /\ args.sys.total_swap = 4 * MemUnit
    /\ out.lines[1].used_bars = 0
    /\ out.lines[2].used_bars = 22
    /\ Len(out.lines[1].bar) = 22
    /\ SubSeq(out.lines[2].bar, 1, 11) = [k \in 1..11 |-> "|"]
    /\ SubSeq(out.lines[2].bar, 12, 22)
          = <<"1", ".", "0", "M", "B", "/", "1", ".", "0", "M", "B">>

(***************************************************************************)
(* Properties of the severity colours (checked under SpecColor)            *)
(***************************************************************************)
\* C11: get_cpu_color gives red iff usage > 80, yellow iff 50 < usage <= 80
\* and green iff usage <= 50: the comparisons are strict, so 80 is yellow and
\* 50 is green.  Stated of the bar of a one-core CPU panel.
C11_CpuColorThresholds ==
    (GridDrawn /\ Len(args.cpus) = 1) =>
        LET u == args.cpus[1]
            color == CellOf(0, 0)[3].color
        IN  /\ color \in {"Red", "Yellow", "Green"}
            /\ color = "Red" <=> u > 80
            /\ color = "Yellow" <=> (50 < u /\ u <= 80)
            /\ color = "Green" <=> u <= 50

\* A core at exactly 80% has been drawn with a yellow bar.
C11_Witness ==
    /\ GridDrawn
    /\ args.cpus = <<80>>
    /\ CellOf(0, 0)[3].kind = "bar"
    /\ CellOf(0, 0)[3].color = "Yellow"

\* C12: get_usage_color gives the alert colour (red) iff the value of a CPU%
\* or MEM% cell is above 50, the warning colour (yellow) iff it is above 20
\* and at most 50, and the nominal colour iff it is at most 20; the panel
\* rule differs: 30 is warning in the table and nominal in the panel, 60 is
\* alert in the table and warning in the panel.
C12_UsageColorThresholds ==
    /\ (TableDrawn /\ Len(out.rows) = 1) =>
          LET p == args.processes[1]
              row == out.rows[1]
              t == args.total_memory
              m == IF t > 0 THEN p.memory * 100 ELSE 0
              d == IF t > 0 THEN t ELSE 1
          IN  /\ row.cpu_color = "Red" <=> p.cpu_usage > 50
              /\ row.cpu_color = "Yellow" <=> (20 < p.cpu_usage /\ p.cpu_usage <= 50)
              /\ row.cpu_color = "White" <=> p.cpu_usage <= 20
              /\ row.mem_color = "Red" <=> m > 50 * d
              /\ row.mem_color = "Yellow" <=> (20 * d < m /\ m <= 50 * d)
              /\ row.mem_color = "White" <=> m <= 20 * d
    /\ (GridDrawn /\ args.cpus = <<30>>) => CellOf(0, 0)[3].color = "Green"
    /\ (GridDrawn /\ args.cpus = <<60>>) => CellOf(0, 0)[3].color = "Yellow"

\* A process at 60% CPU holding 40.1% of the memory: red CPU% cell (the
\* panel's yellow range), yellow MEM% cell.
C12_Witness ==
    /\ TableDrawn
    /\ Len(out.rows) = 1
    /\ args.processes[1].cpu_usage = 60
    /\ args.processes[1].memory = 401
    /\ args.total_memory = 1000
    /\ out.rows[1].cpu_color = "Red"
    /\ out.rows[1].mem_color = "Yellow"

(***************************************************************************)
(* Properties of the ps side channels (checked under SpecPs)               *)
(***************************************************************************)
\* The lines after the header of a listing.
DataLines(ps) == IF Len(ps.lines) <= 1 THEN <<>> ELSE Tail(ps.lines)

\* A priority line parses when it has three fields and a numeric pid.
PriParsable(l) == Len(l) >= 3 /\ l[1].t = "num"

\* A memory line parses when it has three fields and the first three are numeric.
MemParsable(l) == Len(l) >= 3 /\ \A i \in 1..3 : l[i].t = "num"

\* Index of the last data line for pid that satisfies Ok.
LastLineOf(lines, pid, Ok(_)) ==
    CHOOSE i \in 1..Len(lines) :
        /\ Ok(lines[i]) /\ lines[i][1].v = pid
        /\ \A j \in (i + 1)..Len(lines) : ~(Ok(lines[j]) /\ lines[j][1].v = pid)

\* map holds exactly the pids of the lines satisfying Ok.
HoldsParsedPids(map, lines, Ok(_)) ==
    DOMAIN map = {lines[i][1].v : i \in {k \in 1..Len(lines) : Ok(lines[k])}}

\* C13: fetch_priority_map and fetch_memory_map always return a mapping; it
\* is empty when ps could not be run (and on platforms without the ps
\* variant); otherwise it holds exactly the pids of the data lines that
\* parse, each with the values of its last such line, so a malformed line is
\* skipped without losing the others.
C13_SideChannelMapsBestEffort ==
    TableDrawn =>
        LET pri == DataLines(args.ps_pri)
            mem == DataLines(args.ps)
        IN  /\ (~args.ps_pri.ok \/ args.target_os # "macos") => out.priority_map = EmptyMap
            /\ (~args.ps.ok \/ args.target_os # "macos") => out.memory_map = EmptyMap
            /\ args.target_os = "macos" =>
                  /\ HoldsParsedPids(out.priority_map, pri, PriParsable)
                  /\ HoldsParsedPids(out.memory_map, mem, MemParsable)
                  /\ \A p \in DOMAIN out.priority_map :
                        LET l == pri[LastLineOf(pri, p, PriParsable)]
                        IN  out.priority_map[p] = [priority |-> l[2], nice |-> l[3]]
                  /\ \A p \in DOMAIN out.memory_map :
                        LET l == mem[LastLineOf(mem, p, MemParsable)]
                        IN  out.memory_map[p] =
                                [virtual_memory |-> l[2].v, resident_memory |-> l[3].v]

\* On macOS both listings had a good line for pid 1 followed by a malformed
\* line, and both maps hold pid 1's entry.
C13_Witness ==
    /\ TableDrawn
    /\ args.target_os = "macos"
    /\ args.ps_pri.ok /\ args.ps.ok
    /\ Len(DataLines(args.ps_pri)) = 2 /\ Len(DataLines(args.ps)) = 2
    /\ PriParsable(DataLines(args.ps_pri)[1]) /\ ~PriParsable(DataLines(args.ps_pri)[2])
    /\ MemParsable(DataLines(args.ps)[1]) /\ ~MemParsable(DataLines(args.ps)[2])
    /\ DOMAIN out.priority_map = {1}
    /\ DOMAIN out.memory_map = {1}
    /\ out.rows[1].priority_info = out.priority_map[1]

(***************************************************************************)
(* Properties of the CPU bar length (checked under SpecGrid)               *)
(***************************************************************************)
\* C14: for every panel width from 0 upward draw_cpu_bars completes with a
\* bar length of at least 4, equal to max(4, (width - 9) / 4 - 12).
C14_BarLengthForEveryWidth ==
    (out # NoValue /\ out.kind = "cpu_bars") =>
        /\ out.status = "ok"
        /\ out.bar_length >= 4
        /\ out.bar_length = Max(4, ((args.width - 9) \div 4) - 12)

(***************************************************************************)
(* Properties of the help flag and the refresh timer (checked under Spec)  *)
(***************************************************************************)
\* C15: show_help is false when the loop starts, and a step changes it only
\* when it is handle_key_event applied to a key just read: rendering a frame,
\* a poll that times out, a non-key event and a refresh leave it unchanged.
C15_ShowHelpChangedOnlyByKeyHandler ==
    /\ [][pc = "run_application" => ~show_help']_vars
    /\ [][show_help' # show_help =>
            (KeyHandled /\ show_help' = handle_key_event(show_help, key_code'))]_vars
    /\ [][(pc \in {"draw", "update"} \/ (pc = "poll" /\ key_code' \notin KeyCodes))
            => show_help' = show_help]_vars

\* The help window is on screen, an iteration has since polled without
\* reading a key, and show_help is still true.
C15_Witness ==
    /\ pc = "update"
    /\ screen.view = "help"
    /\ key_code = "none"
    /\ show_help

\* C16: last_update is restarted only by a refresh, so the time spent on the
\* help screen keeps counting; a key that dismisses the help window leads to
\* the refresh check of the same iteration with no frame in between, and if
\* more than the refresh interval has elapsed there the snapshot is refreshed
\* before the next frame, the dashboard, is rendered.
C16_RefreshDueAfterHelpBeforeDashboard ==
    /\ [][elapsed' < elapsed => (pc = "update" /\ ~show_help /\ system' = system + 1)]_vars
    /\ [][(pc = "poll" /\ show_help /\ ~show_help') =>
            (pc' = "update" /\ elapsed' >= elapsed /\ UNCHANGED <<frames, screen, system>>)]_vars
    /\ [][(pc = "update" /\ screen.view = "help" /\ ~show_help
             /\ elapsed > REFRESH_INTERVAL_MS) =>
            (system' = system + 1 /\ elapsed' = 0 /\ pc' = "draw"
             /\ UNCHANGED <<frames, screen, show_help>>)]_vars
    /\ [](pc = "draw" /\ screen.view = "help" /\ ~show_help
            => elapsed <= REFRESH_INTERVAL_MS)

\* The help window is still the frame on screen, a key other than q and F1
\* has dismissed it, and the snapshot has been refreshed once since that
\* frame, just now: the dashboard is about to be rendered from it.
C16_Witness ==
    /\ pc = "draw"
    /\ screen.view = "help"
    /\ ~show_help
    /\ key_code \in KeyCodes \ {"q", "F1"}
    /\ system = screen.system + 1
    /\ elapsed = 0

====
